---- MODULE Spec2Model ----
(***************************************************************************)
(* Model of price_storage_contract (src/forecasting.py) and of the price  *)
(* estimator it shares with src/storage_contract.py.                       *)
(*                                                                         *)
(* Numbers.  The program computes with Python floats.  A number is         *)
(* modelled exactly as a record [u, e, mu, me] standing for                *)
(*        u + e * 2^-43 + (mu + me * 2^-43) * 10^-6 .                      *)
(* Volumes have mu = me = 0.  On the two volume grids used here (whole     *)
(* MMBtu, and multiples of 2^-43 MMBtu below 1024) every sum, difference   *)
(* and comparison of the validation path is exact in IEEE double           *)
(* arithmetic, so the model computes what the program computes.  The       *)
(* accounting path is modelled in exact arithmetic.                        *)
(***************************************************************************)
EXTENDS Integers, Sequences, FiniteSets, TLC

VARIABLES
    injection_dates, withdrawal_dates,       \* arguments (date strings)
    injection_volumes, withdrawal_volumes,   \* arguments
    max_storage_capacity, storage_costs,     \* arguments
    pc,                                      \* position in the function body
    error,                                   \* kind of the ValueError raised
    injection_dates_parsed, withdrawal_dates_parsed,
    total_injection_volume, total_withdrawal_volume,
    operations, loop_idx, current_storage,
    price_model, price_lookups,
    total_purchase_cost, total_sale_revenue,
    total_injection_cost, total_withdrawal_cost, total_transport_cost,
    injection_details, withdrawal_details,
    duration_months, total_storage_cost,
    result

args == <<injection_dates, withdrawal_dates, injection_volumes,
          withdrawal_volumes, max_storage_capacity>>
validation_locals == <<injection_dates_parsed, withdrawal_dates_parsed,
                       total_injection_volume, total_withdrawal_volume>>
replay_locals == <<operations, loop_idx, current_storage>>
cash_flows == <<total_purchase_cost, total_sale_revenue, total_injection_cost,
                total_withdrawal_cost, total_transport_cost,
                injection_details, withdrawal_details>>
closing_locals == <<duration_months, total_storage_cost, result>>
vars == <<args, storage_costs, pc, error, validation_locals, replay_locals,
          price_model, price_lookups, cash_flows, closing_locals>>

-----------------------------------------------------------------------------
(* Bounds and program constants *)

\* Number of legs an input list may hold (one family of calls lists one
\* injection more).
MaxLegs == 2

\* volume / 1_000_000
Million == 1000000

\* The tolerance 1e-6 lies strictly between TolEps and TolEps + 1 units of
\* 2^-43: as a double it is 8796093.02... * 2^-43.
TolEps == 8796093

DefaultCapacity == 5000000
DefaultMonthlyStorageFee == 100000
DefaultInjectionCost == 10
DefaultWithdrawalCost == 10
DefaultTransportCostPerTrip == 25000

-----------------------------------------------------------------------------
(* Float arithmetic on the exact grid *)

Zero == [u |-> 0, e |-> 0, mu |-> 0, me |-> 0]

\* A whole number, as Python's int or float.
FromInt(k) == [u |-> k, e |-> 0, mu |-> 0, me |-> 0]

\* whole + eps * 2^-43
Fine(whole, eps) == [u |-> whole, e |-> eps, mu |-> 0, me |-> 0]

\* Carries whole millions of the micro parts into the unit parts.
Norm(x) ==
    [u  |-> x.u + (x.mu \div Million),
     e  |-> x.e + (x.me \div Million),
     mu |-> x.mu % Million,
     me |-> x.me % Million]

\* a + b
NAdd(a, b) ==
    Norm([u |-> a.u + b.u, e |-> a.e + b.e, mu |-> a.mu + b.mu, me |-> a.me + b.me])

\* a - b
NSub(a, b) ==
    Norm([u |-> a.u - b.u, e |-> a.e - b.e, mu |-> a.mu - b.mu, me |-> a.me - b.me])

\* a * k, k a whole number
NScale(a, k) ==
    Norm([u |-> a.u * k, e |-> a.e * k, mu |-> a.mu * k, me |-> a.me * k])

\* volume / 1_000_000, for a volume (mu = me = 0)
DivMillion(v) == Norm([u |-> 0, e |-> 0, mu |-> v.u, me |-> v.e])

\* Sign of a volume: |e * 2^-43| < 1, so the whole part decides first.
Sign(v) ==
    IF v.u > 0 THEN 1
    ELSE IF v.u < 0 THEN -1
    ELSE IF v.e > 0 THEN 1
    ELSE IF v.e < 0 THEN -1
    ELSE 0

\* a > b on volumes
NGreater(a, b) == Sign(NSub(a, b)) > 0

\* abs(d) > 1e-6 on a difference of volumes
ExceedsTolerance(d) == d.u # 0 \/ d.e > TolEps \/ d.e < -TolEps

\* sum(volumes)
RECURSIVE Sum(_)
Sum(volumes) ==
    IF volumes = <<>> THEN Zero
    ELSE NAdd(Sum(SubSeq(volumes, 1, Len(volumes) - 1)), volumes[Len(volumes)])

-----------------------------------------------------------------------------
(* Dates *)

IsLeap(y) == (y % 4 = 0 /\ y % 100 # 0) \/ y % 400 = 0

DaysInMonth(y, m) ==
    IF m = 2 THEN (IF IsLeap(y) THEN 29 ELSE 28)
    ELSE IF m \in {4, 6, 9, 11} THEN 30 ELSE 31

\* pd.to_datetime accepts a 'YYYY-MM-DD' string exactly when it names a
\* calendar date; a date string is modelled by its three numeric fields.
Parses(s) == s.m \in 1..12 /\ s.d \in 1..DaysInMonth(s.y, s.m)

\* The Timestamp pd.to_datetime returns.
ToDatetime(s) == [year |-> s.y, month |-> s.m, day |-> s.d]

\* Timestamp comparison a < b
DateLess(a, b) ==
    \/ a.year < b.year
    \/ a.year = b.year /\ a.month < b.month
    \/ a.year = b.year /\ a.month = b.month /\ a.day < b.day

RECURSIVE DaysBefore(_, _)
DaysBefore(y, m) == IF m = 1 THEN 0 ELSE DaysBefore(y, m - 1) + DaysInMonth(y, m - 1)

\* Timestamp.dayofyear
DayOfYear(t) == DaysBefore(t.year, t.month) + t.day

\* (a.year - b.year) * 12 + (a.month - b.month)
MonthsDiff(a, b) == (a.year - b.year) * 12 + (a.month - b.month)

RECURSIVE MinDate(_)
MinDate(ds) ==
    IF Len(ds) = 1 THEN ds[1]
    ELSE LET m == MinDate(SubSeq(ds, 1, Len(ds) - 1))
         IN  IF DateLess(ds[Len(ds)], m) THEN ds[Len(ds)] ELSE m

RECURSIVE MaxDate(_)
MaxDate(ds) ==
    IF Len(ds) = 1 THEN ds[1]
    ELSE LET m == MaxDate(SubSeq(ds, 1, Len(ds) - 1))
         IN  IF DateLess(m, ds[Len(ds)]) THEN ds[Len(ds)] ELSE m

-----------------------------------------------------------------------------
(* The price estimator *)

\* The fitted LinearRegression with the reference date and time index taken
\* from the last row of the price data.  Prices are whole dollars; the
\* harmonic coefficients are per 1000 of the harmonic features below.
PriceModels ==
    { \* flat
      [intercept |-> 10, time |-> 0, sin1 |-> 0, cos1 |-> 0, sin2 |-> 0,
       cos2 |-> 0, month |-> 0,
       reference_date |-> [year |-> 2024, month |-> 9, day |-> 30],
       last_time_index |-> 47],
      \* rising trend with a seasonal swing
      [intercept |-> -36, time |-> 1, sin1 |-> -3, cos1 |-> 2, sin2 |-> 1,
       cos2 |-> -1, month |-> 0,
       reference_date |-> [year |-> 2024, month |-> 9, day |-> 30],
       last_time_index |-> 47],
      \* falling trend: negative raw predictions at late dates
      [intercept |-> 95, time |-> -2, sin1 |-> 2, cos1 |-> 0, sin2 |-> 0,
       cos2 |-> 3, month |-> 1,
       reference_date |-> [year |-> 2024, month |-> 9, day |-> 30],
       last_time_index |-> 47] }

NoModel == [intercept |-> 0, time |-> 0, sin1 |-> 0, cos1 |-> 0, sin2 |-> 0,
            cos2 |-> 0, month |-> 0,
            reference_date |-> [year |-> 0, month |-> 0, day |-> 0],
            last_time_index |-> -1]

\* 1000 * np.sin(2 * np.pi * day_of_year / 365.25), rounded, with the
\* cosine and the second harmonic, for the days of year of the model's dates.
Harmonics(day_of_year) ==
    CASE day_of_year = 10  -> [sin1 |-> 171,  cos1 |-> 985,  sin2 |-> 337,  cos2 |-> 941]
      [] day_of_year = 153 -> [sin1 |-> 488,  cos1 |-> -873, sin2 |-> -852, cos2 |-> 524]
      [] day_of_year = 167 -> [sin1 |-> 266,  cos1 |-> -964, sin2 |-> -512, cos2 |-> 859]
      [] day_of_year = 245 -> [sin1 |-> -879, cos1 |-> -477, sin2 |-> 839,  cos2 |-> -544]

\* The feature row built for a target date.
Features(target_date, reference_date, last_time_index) ==
    LET months_diff == MonthsDiff(target_date, reference_date)
        h == Harmonics(DayOfYear(target_date))
    IN  [time_index |-> last_time_index + months_diff,
         sin1 |-> h.sin1, cos1 |-> h.cos1, sin2 |-> h.sin2, cos2 |-> h.cos2,
         month |-> target_date.month]

\* model.predict(features)[0]: intercept + coefficients . features
Predict(model, f) ==
    model.intercept + model.time * f.time_index + model.month * f.month
    + ((model.sin1 * f.sin1 + model.cos1 * f.cos1
        + model.sin2 * f.sin2 + model.cos2 * f.cos2) \div 1000)

\* The clamp left out.
Clamp_Identity(price) == price

\* max(0, price)
Clamp(price) == IF price > 0 THEN price ELSE 0

\* estimate_price(date_str, model, reference_date, last_time_index)
EstimatePrice(date_str, model) ==
    Clamp(Predict(model, Features(ToDatetime(date_str), model.reference_date,
                                  model.last_time_index)))

-----------------------------------------------------------------------------
(* Arguments of a call *)

D0601 == [y |-> 2024, m |-> 6, d |-> 1]
D0615 == [y |-> 2024, m |-> 6, d |-> 15]
D0901 == [y |-> 2024, m |-> 9, d |-> 1]
D0110 == [y |-> 2025, m |-> 1, d |-> 10]
BadDate == [y |-> 2024, m |-> 13, d |-> 45]

\* storage_costs = None
NoCosts == [monthly_storage_fee |-> -1, injection_cost |-> -1,
            withdrawal_cost |-> -1, transport_cost_per_trip |-> -1]

DefaultCosts ==
    [monthly_storage_fee |-> DefaultMonthlyStorageFee,
     injection_cost |-> DefaultInjectionCost,
     withdrawal_cost |-> DefaultWithdrawalCost,
     transport_cost_per_trip |-> DefaultTransportCostPerTrip]

OtherCosts ==
    [monthly_storage_fee |-> 50000, injection_cost |-> 20,
     withdrawal_cost |-> 5, transport_cost_per_trip |-> 1000]

\* Families of calls: the date strings and volumes the lists are drawn from,
\* the capacities, the cost schedule, whether the date and volume lists may
\* differ in length, and how many injections beyond MaxLegs there may be.
Scenarios ==
    { [dates |-> {D0601, D0901}, vols |-> {FromInt(1000000), FromInt(2000000)},
       caps |-> {FromInt(2000000)}, costs |-> NoCosts, skew |-> FALSE, more |-> 1],
      [dates |-> {D0601, D0615}, vols |-> {FromInt(2000000), FromInt(6000000)},
       caps |-> {FromInt(DefaultCapacity)}, costs |-> OtherCosts, skew |-> FALSE, more |-> 0],
      [dates |-> {D0901, D0110}, vols |-> {FromInt(1000000)},
       caps |-> {FromInt(DefaultCapacity)}, costs |-> NoCosts, skew |-> FALSE, more |-> 0],
      [dates |-> {D0601, BadDate}, vols |-> {FromInt(0), FromInt(1000000)},
       caps |-> {FromInt(DefaultCapacity)}, costs |-> NoCosts, skew |-> TRUE, more |-> 0],
      \* 100, the double 99.999999 = 100 - TolEps * 2^-43, and the next
      \* grid point below it
      [dates |-> {D0615}, vols |-> {FromInt(100), Fine(100, -TolEps),
                                    Fine(100, -TolEps - 1)},
       caps |-> {FromInt(DefaultCapacity)}, costs |-> NoCosts, skew |-> FALSE, more |-> 0] }

Lists(S, n) == [1..n -> S]

NoDetails == <<>>
NoResult == [status |-> "none"]

Init ==
    /\ \E sc \in Scenarios :
         \E ni \in 0..(MaxLegs + sc.more), nw \in 0..MaxLegs :
           \E vi \in (IF sc.skew THEN 0..MaxLegs ELSE {ni}),
              vw \in (IF sc.skew THEN 0..MaxLegs ELSE {nw}) :
             /\ injection_dates \in Lists(sc.dates, ni)
             /\ injection_volumes \in Lists(sc.vols, vi)
             /\ withdrawal_dates \in Lists(sc.dates, nw)
             /\ withdrawal_volumes \in Lists(sc.vols, vw)
             /\ max_storage_capacity \in sc.caps
             /\ storage_costs = sc.costs
    /\ pc = "check_injection_lengths"
    /\ error = "none"
    /\ injection_dates_parsed = <<>>
    /\ withdrawal_dates_parsed = <<>>
    /\ total_injection_volume = Zero
    /\ total_withdrawal_volume = Zero
    /\ operations = <<>>
    /\ loop_idx = 0
    /\ current_storage = Zero
    /\ price_model = NoModel
    /\ price_lookups = 0
    /\ total_purchase_cost = Zero
    /\ total_sale_revenue = Zero
    /\ total_injection_cost = Zero
    /\ total_withdrawal_cost = Zero
    /\ total_transport_cost = Zero
    /\ injection_details = NoDetails
    /\ withdrawal_details = NoDetails
    /\ duration_months = 0
    /\ total_storage_cost = Zero
    /\ result = NoResult

\* raise ValueError(...)
Raise(kind) == pc' = "raised" /\ error' = kind

-----------------------------------------------------------------------------
(* Validation *)

\* storage_costs defaulting, then the injection length check
CheckInjectionLengths ==
    /\ pc = "check_injection_lengths"
    /\ storage_costs' = IF storage_costs = NoCosts THEN DefaultCosts ELSE storage_costs
    /\ IF Len(injection_dates) # Len(injection_volumes)
       THEN Raise("mismatched_length")
       ELSE pc' = "check_withdrawal_lengths" /\ error' = error
    /\ UNCHANGED <<args, validation_locals, replay_locals, price_model,
                   price_lookups, cash_flows, closing_locals>>

CheckWithdrawalLengths ==
    /\ pc = "check_withdrawal_lengths"
    /\ IF Len(withdrawal_dates) # Len(withdrawal_volumes)
       THEN Raise("mismatched_length")
       ELSE pc' = "check_non_empty" /\ error' = error
    /\ UNCHANGED <<args, storage_costs, validation_locals, replay_locals,
                   price_model, price_lookups, cash_flows, closing_locals>>

CheckNonEmpty ==
    /\ pc = "check_non_empty"
    /\ IF Len(injection_dates) = 0 \/ Len(withdrawal_dates) = 0
       THEN Raise("empty_schedule")
       ELSE pc' = "parse_dates" /\ error' = error
    /\ UNCHANGED <<args, storage_costs, validation_locals, replay_locals,
                   price_model, price_lookups, cash_flows, closing_locals>>

\* The list comprehension raises at the first string that does not parse.
AllParse(date_strs) == \A i \in 1..Len(date_strs) : Parses(date_strs[i])

ParsedList(date_strs) == [i \in 1..Len(date_strs) |-> ToDatetime(date_strs[i])]

ParseDates ==
    /\ pc = "parse_dates"
    /\ IF AllParse(injection_dates) /\ AllParse(withdrawal_dates)
       THEN /\ injection_dates_parsed' = ParsedList(injection_dates)
            /\ withdrawal_dates_parsed' = ParsedList(withdrawal_dates)
            /\ pc' = "check_injection_volumes"
            /\ error' = error
       ELSE /\ Raise("invalid_date")
            /\ UNCHANGED <<injection_dates_parsed, withdrawal_dates_parsed>>
    /\ UNCHANGED <<args, storage_costs, total_injection_volume,
                   total_withdrawal_volume, replay_locals, price_model,
                   price_lookups, cash_flows, closing_locals>>


\* The check written volume < 0: a zero volume passes.
NonPositive_ZeroPasses(volume) == Sign(volume) < 0

\* volume <= 0
NonPositive(volume) == Sign(volume) <= 0

SomeNonPositive(volumes) == \E i \in 1..Len(volumes) : NonPositive(volumes[i])

CheckInjectionVolumes ==
    /\ pc = "check_injection_volumes"
    /\ IF SomeNonPositive(injection_volumes)
       THEN Raise("non_positive_volume")
       ELSE pc' = "check_withdrawal_volumes" /\ error' = error
    /\ UNCHANGED <<args, storage_costs, validation_locals, replay_locals,
                   price_model, price_lookups, cash_flows, closing_locals>>

CheckWithdrawalVolumes ==
    /\ pc = "check_withdrawal_volumes"
    /\ IF SomeNonPositive(withdrawal_volumes)
       THEN Raise("non_positive_volume")
       ELSE pc' = "check_totals" /\ error' = error
    /\ UNCHANGED <<args, storage_costs, validation_locals, replay_locals,
                   price_model, price_lookups, cash_flows, closing_locals>>


\* The check without abs(): only an excess of injected volume is caught.
VolumeMismatch_OneSided(total_in, total_out) ==
    LET d == NSub(total_in, total_out)
    IN  d.u > 0 \/ (d.u = 0 /\ d.e > TolEps)

\* abs(total_injection_volume - total_withdrawal_volume) > 1e-6
VolumeMismatch(total_in, total_out) == ExceedsTolerance(NSub(total_in, total_out))

CheckTotals ==
    /\ pc = "check_totals"
    /\ total_injection_volume' = Sum(injection_volumes)
    /\ total_withdrawal_volume' = Sum(withdrawal_volumes)
    /\ IF VolumeMismatch(total_injection_volume', total_withdrawal_volume')
       THEN Raise("volume_mismatch")
       ELSE pc' = "build_operations" /\ error' = error
    /\ UNCHANGED <<args, storage_costs, injection_dates_parsed,
                   withdrawal_dates_parsed, replay_locals, price_model,
                   price_lookups, cash_flows, closing_locals>>

-----------------------------------------------------------------------------
(* The operations list and the occupancy replay *)

\* The appended dictionaries, injections first, each list in input order.
Operation(date, type, volume, index) ==
    [date |-> date, type |-> type, volume |-> volume, index |-> index]

MergedOperations(inj_parsed, inj_volumes, wd_parsed, wd_volumes) ==
    [i \in 1..Len(inj_parsed) |->
        Operation(inj_parsed[i], "injection", inj_volumes[i], i - 1)]
    \o
    [i \in 1..Len(wd_parsed) |->
        Operation(wd_parsed[i], "withdrawal", wd_volumes[i], i - 1)]


\* An unstable sort: op goes in front of the operations of its own date.
RECURSIVE InsertByDate_TiesReversed(_, _)
InsertByDate_TiesReversed(sorted, op) ==
    IF sorted = <<>> THEN <<op>>
    ELSE IF ~DateLess(Head(sorted).date, op.date) THEN <<op>> \o sorted
    ELSE <<Head(sorted)>> \o InsertByDate_TiesReversed(Tail(sorted), op)

\* list.sort is stable: op goes behind every operation whose date is not
\* later than its own.
RECURSIVE InsertByDate(_, _)
InsertByDate(sorted, op) ==
    IF sorted = <<>> THEN <<op>>
    ELSE IF DateLess(op.date, Head(sorted).date) THEN <<op>> \o sorted
    ELSE <<Head(sorted)>> \o InsertByDate(Tail(sorted), op)


\* The sort left out: the merged list, injections first.
SortByDate_Unsorted(ops) == ops

\* operations.sort(key=lambda x: x['date'])
RECURSIVE SortByDate(_)
SortByDate(ops) ==
    IF ops = <<>> THEN <<>>
    ELSE InsertByDate(SortByDate(SubSeq(ops, 1, Len(ops) - 1)), ops[Len(ops)])

BuildOperations ==
    /\ pc = "build_operations"
    /\ operations' = SortByDate(MergedOperations(injection_dates_parsed, injection_volumes,
                                                 withdrawal_dates_parsed, withdrawal_volumes))
    /\ current_storage' = Zero
    /\ loop_idx' = 1
    /\ pc' = "replay"
    /\ UNCHANGED <<args, storage_costs, error, validation_locals, price_model,
                   price_lookups, cash_flows, closing_locals>>

\* current_storage after op
StorageAfter(storage, op) ==
    IF op.type = "injection" THEN NAdd(storage, op.volume)
    ELSE NSub(storage, op.volume)


\* The replay without the test for a negative occupancy.
ReplayCheck_NoSignTest(storage, op, capacity) ==
    IF op.type = "injection" /\ NGreater(storage, capacity)
    THEN "capacity_exceeded" ELSE "none"

\* The capacity test written >=.
ReplayCheck_AtCapacity(storage, op, capacity) ==
    IF op.type = "injection"
    THEN (IF Sign(NSub(storage, capacity)) >= 0 THEN "capacity_exceeded" ELSE "none")
    ELSE (IF Sign(storage) < 0 THEN "insufficient_storage" ELSE "none")

\* The check made after op: the capacity after an injection, the sign after
\* a withdrawal.
ReplayCheck(storage, op, capacity) ==
    IF op.type = "injection"
    THEN (IF NGreater(storage, capacity) THEN "capacity_exceeded" ELSE "none")
    ELSE (IF Sign(storage) < 0 THEN "insufficient_storage" ELSE "none")

\* One iteration of the loop over the sorted operations.
ReplayStep ==
    /\ pc = "replay"
    /\ LET op == operations[loop_idx]
           storage == StorageAfter(current_storage, op)
           failure == ReplayCheck(storage, op, max_storage_capacity)
       IN  /\ current_storage' = storage
           /\ IF failure # "none"
              THEN Raise(failure) /\ loop_idx' = loop_idx
              ELSE /\ error' = error
                   /\ loop_idx' = loop_idx + 1
                   /\ pc' = IF loop_idx = Len(operations) THEN "load_model" ELSE "replay"
    /\ UNCHANGED <<args, storage_costs, validation_locals, operations,
                   price_model, price_lookups, cash_flows, closing_locals>>

-----------------------------------------------------------------------------
(* Pricing *)

\* load_price_data and build_price_model: the model fitted to the price file.
LoadModel ==
    /\ pc = "load_model"
    /\ price_model' \in PriceModels
    /\ loop_idx' = 1
    /\ pc' = "process_injections"
    /\ UNCHANGED <<args, storage_costs, error, validation_locals, operations,
                   current_storage, price_lookups, cash_flows, closing_locals>>

\* volume * price
LegAmount(volume, price) == NScale(volume, price)

\* (volume / 1_000_000) * unit cost
HandlingCost(volume, unit_cost) == NScale(DivMillion(volume), unit_cost)

\* One iteration of the loop over the injections, in input order.
ProcessInjection ==
    /\ pc = "process_injections"
    /\ LET date == injection_dates[loop_idx]
           volume == injection_volumes[loop_idx]
           price == EstimatePrice(date, price_model)
           cost == LegAmount(volume, price)
       IN  /\ price_lookups' = price_lookups + 1
           /\ total_purchase_cost' = NAdd(total_purchase_cost, cost)
           /\ total_injection_cost' =
                  NAdd(total_injection_cost,
                       HandlingCost(volume, storage_costs.injection_cost))
           /\ total_transport_cost' =
                  NAdd(total_transport_cost, FromInt(storage_costs.transport_cost_per_trip))
           /\ injection_details' =
                  Append(injection_details,
                         [date |-> date, volume |-> volume, price |-> price, cost |-> cost])
    /\ IF loop_idx = Len(injection_dates)
       THEN loop_idx' = 1 /\ pc' = "process_withdrawals"
       ELSE loop_idx' = loop_idx + 1 /\ pc' = pc
    /\ UNCHANGED <<args, storage_costs, error, validation_locals, operations,
                   current_storage, price_model, total_sale_revenue,
                   total_withdrawal_cost, withdrawal_details, closing_locals>>

\* One iteration of the loop over the withdrawals, in input order.
ProcessWithdrawal ==
    /\ pc = "process_withdrawals"
    /\ LET date == withdrawal_dates[loop_idx]
           volume == withdrawal_volumes[loop_idx]
           price == EstimatePrice(date, price_model)
           revenue == LegAmount(volume, price)
       IN  /\ price_lookups' = price_lookups + 1
           /\ total_sale_revenue' = NAdd(total_sale_revenue, revenue)
           /\ total_withdrawal_cost' =
                  NAdd(total_withdrawal_cost,
                       HandlingCost(volume, storage_costs.withdrawal_cost))
           /\ total_transport_cost' =
                  NAdd(total_transport_cost, FromInt(storage_costs.transport_cost_per_trip))
           /\ withdrawal_details' =
                  Append(withdrawal_details,
                         [date |-> date, volume |-> volume, price |-> price,
                          revenue |-> revenue])
    /\ IF loop_idx = Len(withdrawal_dates)
       THEN loop_idx' = loop_idx /\ pc' = "storage_duration"
       ELSE loop_idx' = loop_idx + 1 /\ pc' = pc
    /\ UNCHANGED <<args, storage_costs, error, validation_locals, operations,
                   current_storage, price_model, total_purchase_cost,
                   total_injection_cost, injection_details, closing_locals>>

-----------------------------------------------------------------------------
(* Storage duration and the result *)


\* The first listed injection taken for the earliest.
FirstInjectionDate_FirstListed(inj_parsed) == inj_parsed[1]

\* min(injection_dates_parsed)
FirstInjectionDate(inj_parsed) == MinDate(inj_parsed)

\* max(withdrawal_dates_parsed)
LastWithdrawalDate(wd_parsed) == MaxDate(wd_parsed)


\* The duration without the minimum of one month.
DurationMonths_NoMinimum(first_injection_date, last_withdrawal_date) ==
    MonthsDiff(last_withdrawal_date, first_injection_date)

\* The month difference, 1 when it is 0.
DurationMonths(first_injection_date, last_withdrawal_date) ==
    LET months == MonthsDiff(last_withdrawal_date, first_injection_date)
    IN  IF months = 0 THEN 1 ELSE months

\* The schedule order check, the duration and the storage cost.
StorageDuration ==
    /\ pc = "storage_duration"
    /\ LET first_injection_date == FirstInjectionDate(injection_dates_parsed)
           last_withdrawal_date == LastWithdrawalDate(withdrawal_dates_parsed)
       IN  IF DateLess(last_withdrawal_date, first_injection_date)
           THEN /\ Raise("invalid_schedule_order")
                /\ UNCHANGED <<duration_months, total_storage_cost>>
           ELSE /\ duration_months' =
                       DurationMonths(first_injection_date, last_withdrawal_date)
                /\ total_storage_cost' =
                       FromInt(duration_months' * storage_costs.monthly_storage_fee)
                /\ pc' = "return"
                /\ error' = error
    /\ UNCHANGED <<args, storage_costs, validation_locals, replay_locals,
                   price_model, price_lookups, cash_flows, result>>


\* The transport cost left out of the value.
ContractValue_NoTransport(sale, purchase, injection, withdrawal, transport, storage) ==
    NSub(NSub(NSub(NSub(sale, purchase), injection), withdrawal), storage)

\* total_sale_revenue - total_purchase_cost - total_injection_cost
\*   - total_withdrawal_cost - total_transport_cost - total_storage_cost
ContractValue(sale, purchase, injection, withdrawal, transport, storage) ==
    NSub(NSub(NSub(NSub(NSub(sale, purchase), injection), withdrawal), transport), storage)

Return ==
    /\ pc = "return"
    /\ result' =
         [status |-> "returned",
          contract_value |->
              ContractValue(total_sale_revenue, total_purchase_cost,
                            total_injection_cost, total_withdrawal_cost,
                            total_transport_cost, total_storage_cost),
          total_sale_revenue |-> total_sale_revenue,
          total_purchase_cost |-> total_purchase_cost,
          total_injection_cost |-> total_injection_cost,
          total_withdrawal_cost |-> total_withdrawal_cost,
          total_transport_cost |-> total_transport_cost,
          total_storage_cost |-> total_storage_cost,
          duration_months |-> duration_months,
          total_volume |-> total_injection_volume,
          injection_details |-> injection_details,
          withdrawal_details |-> withdrawal_details]
    /\ pc' = "done"
    /\ UNCHANGED <<args, storage_costs, error, validation_locals, replay_locals,
                   price_model, price_lookups, cash_flows, duration_months,
                   total_storage_cost>>

-----------------------------------------------------------------------------

Next ==
    \/ CheckInjectionLengths
    \/ CheckWithdrawalLengths
    \/ CheckNonEmpty
    \/ ParseDates
    \/ CheckInjectionVolumes
    \/ CheckWithdrawalVolumes
    \/ CheckTotals
    \/ BuildOperations
    \/ ReplayStep
    \/ LoadModel
    \/ ProcessInjection
    \/ ProcessWithdrawal
    \/ StorageDuration
    \/ Return

Spec == Init /\ [][Next]_vars

-----------------------------------------------------------------------------
(* The call as a function of its arguments and the fitted model: the same  *)
(* statements composed, used to relate the outcomes of two calls.          *)

Raised(kind) == [status |-> "raised", error |-> kind, contract_value |-> Zero]
Returned(value) == [status |-> "returned", error |-> "none", contract_value |-> value]

\* The first failure of the replay loop over ops[k..], "none" without one.
RECURSIVE ReplayFrom(_, _, _, _)
ReplayFrom(ops, k, storage, capacity) ==
    IF k > Len(ops) THEN "none"
    ELSE LET after == StorageAfter(storage, ops[k])
             failure == ReplayCheck(after, ops[k], capacity)
         IN  IF failure # "none" THEN failure
             ELSE ReplayFrom(ops, k + 1, after, capacity)

\* Sum over the legs of one list of volume * price.
RECURSIVE LegAmounts(_, _, _, _)
LegAmounts(dates, volumes, model, n) ==
    IF n = 0 THEN Zero
    ELSE NAdd(LegAmounts(dates, volumes, model, n - 1),
              LegAmount(volumes[n], EstimatePrice(dates[n], model)))

\* Sum over the legs of one list of the handling cost.
RECURSIVE HandlingCosts(_, _, _)
HandlingCosts(volumes, unit_cost, n) ==
    IF n = 0 THEN Zero
    ELSE NAdd(HandlingCosts(volumes, unit_cost, n - 1), HandlingCost(volumes[n], unit_cost))

PriceStorageContract(inj_dates, wd_dates, inj_volumes, wd_volumes, capacity, costs_arg, model) ==
    LET costs == IF costs_arg = NoCosts THEN DefaultCosts ELSE costs_arg
    IN
    IF Len(inj_dates) # Len(inj_volumes) THEN Raised("mismatched_length")
    ELSE IF Len(wd_dates) # Len(wd_volumes) THEN Raised("mismatched_length")
    ELSE IF Len(inj_dates) = 0 \/ Len(wd_dates) = 0 THEN Raised("empty_schedule")
    ELSE IF ~(AllParse(inj_dates) /\ AllParse(wd_dates)) THEN Raised("invalid_date")
    ELSE IF SomeNonPositive(inj_volumes) THEN Raised("non_positive_volume")
    ELSE IF SomeNonPositive(wd_volumes) THEN Raised("non_positive_volume")
    ELSE IF VolumeMismatch(Sum(inj_volumes), Sum(wd_volumes)) THEN Raised("volume_mismatch")
    ELSE
    LET inj_parsed == ParsedList(inj_dates)
        wd_parsed == ParsedList(wd_dates)
        ops == SortByDate(MergedOperations(inj_parsed, inj_volumes, wd_parsed, wd_volumes))
        failure == ReplayFrom(ops, 1, Zero, capacity)
        first_injection_date == FirstInjectionDate(inj_parsed)
        last_withdrawal_date == LastWithdrawalDate(wd_parsed)
        purchase == LegAmounts(inj_dates, inj_volumes, model, Len(inj_dates))
        sale == LegAmounts(wd_dates, wd_volumes, model, Len(wd_dates))
        injection == HandlingCosts(inj_volumes, costs.injection_cost, Len(inj_volumes))
        withdrawal == HandlingCosts(wd_volumes, costs.withdrawal_cost, Len(wd_volumes))
        transport == FromInt(costs.transport_cost_per_trip * (Len(inj_dates) + Len(wd_dates)))
        storage == FromInt(DurationMonths(first_injection_date, last_withdrawal_date)
                           * costs.monthly_storage_fee)
    IN  IF failure # "none" THEN Raised(failure)
        ELSE IF DateLess(last_withdrawal_date, first_injection_date)
             THEN Raised("invalid_schedule_order")
        ELSE Returned(ContractValue(sale, purchase, injection, withdrawal, transport, storage))

-----------------------------------------------------------------------------
(* Vocabulary of the properties.  The chronology is stated without the     *)
(* sort: leg q comes before leg p when its date is earlier, or equal with  *)
(* q earlier in the merged input order (injections, then withdrawals).     *)

Terminated == pc \in {"raised", "done"}
OperationsBuilt == Len(operations) > 0

NumInjections == Len(injection_dates)
NumLegs == Len(injection_dates) + Len(withdrawal_dates)

LegIsInjection(p) == p <= NumInjections
LegDateStr(p) ==
    IF LegIsInjection(p) THEN injection_dates[p] ELSE withdrawal_dates[p - NumInjections]
LegDate(p) == ToDatetime(LegDateStr(p))
LegVolume(p) ==
    IF LegIsInjection(p) THEN injection_volumes[p] ELSE withdrawal_volumes[p - NumInjections]

NotAfter(q, p) ==
    \/ DateLess(LegDate(q), LegDate(p))
    \/ LegDate(q) = LegDate(p) /\ q <= p

RECURSIVE NetVolume(_, _)
\* Injected minus withdrawn volume over the legs of the set legs.
NetVolume(legs, upto) ==
    IF upto = 0 THEN Zero
    ELSE LET rest == NetVolume(legs, upto - 1)
         IN  IF upto \notin legs THEN rest
             ELSE IF LegIsInjection(upto) THEN NAdd(rest, LegVolume(upto))
             ELSE NSub(rest, LegVolume(upto))

\* Occupancy once leg p and every leg not after it have been applied.
OccupancyAt(p) == NetVolume({q \in 1..NumLegs : NotAfter(q, p)}, NumLegs)

AboveCapacity(v) == Sign(NSub(v, max_storage_capacity)) > 0
BelowZero(v) == Sign(v) < 0
WithinBounds(v) == ~AboveCapacity(v) /\ ~BelowZero(v)

\* Position of leg p in the chronology, and the leg at position k.
Rank(p) == Cardinality({q \in 1..NumLegs : NotAfter(q, p)})
LegAtPosition(k) == CHOOSE p \in 1..NumLegs : Rank(p) = k

\* The eight checks, each as a condition on the arguments alone.
ViolatesInjectionLengths == Len(injection_dates) # Len(injection_volumes)
ViolatesWithdrawalLengths == Len(withdrawal_dates) # Len(withdrawal_volumes)
ViolatesNonEmpty == Len(injection_dates) = 0 \/ Len(withdrawal_dates) = 0
ViolatesDates ==
    \/ \E i \in 1..Len(injection_dates) : ~Parses(injection_dates[i])
    \/ \E i \in 1..Len(withdrawal_dates) : ~Parses(withdrawal_dates[i])
ViolatesPositive ==
    \/ \E i \in 1..Len(injection_volumes) : Sign(injection_volumes[i]) # 1
    \/ \E i \in 1..Len(withdrawal_volumes) : Sign(withdrawal_volumes[i]) # 1
TotalsDifference ==
    LET a == Sum(injection_volumes)
        b == Sum(withdrawal_volumes)
    IN  [u |-> a.u - b.u, e |-> a.e - b.e]
\* |difference| <= 1e-6
TotalsWithinTolerance ==
    /\ TotalsDifference.u = 0
    /\ TotalsDifference.e <= TolEps
    /\ TotalsDifference.e >= -TolEps
ViolatesOccupancy == \E p \in 1..NumLegs : ~WithinBounds(OccupancyAt(p))
ViolatesOrder ==
    \A i \in 1..Len(injection_dates) :
        \E j \in 1..Len(withdrawal_dates) :
            /\ DateLess(ToDatetime(withdrawal_dates[j]), ToDatetime(injection_dates[i]))
            /\ \A k \in 1..Len(withdrawal_dates) :
                   ~DateLess(ToDatetime(withdrawal_dates[j]), ToDatetime(withdrawal_dates[k]))

\* The kinds of error the earliest violated check may report ({} when no
\* check is violated).
ExpectedErrors ==
    IF ViolatesInjectionLengths \/ ViolatesWithdrawalLengths THEN {"mismatched_length"}
    ELSE IF ViolatesNonEmpty THEN {"empty_schedule"}
    ELSE IF ViolatesDates THEN {"invalid_date"}
    ELSE IF ViolatesPositive THEN {"non_positive_volume"}
    ELSE IF ~TotalsWithinTolerance THEN {"volume_mismatch"}
    ELSE IF ViolatesOccupancy THEN {"capacity_exceeded", "insufficient_storage"}
    ELSE IF ViolatesOrder THEN {"invalid_schedule_order"}
    ELSE {}

NothingAccounted ==
    /\ price_lookups = 0
    /\ price_model = NoModel
    /\ total_purchase_cost = Zero /\ total_sale_revenue = Zero
    /\ total_injection_cost = Zero /\ total_withdrawal_cost = Zero
    /\ total_transport_cost = Zero
    /\ injection_details = <<>> /\ withdrawal_details = <<>>

-----------------------------------------------------------------------------
(* Properties *)

C2_OccupancyReplay ==
    /\ pc = "replay" =>
          /\ current_storage =
                 (IF loop_idx = 1 THEN Zero ELSE OccupancyAt(LegAtPosition(loop_idx - 1)))
          /\ \A k \in 1..(loop_idx - 1) : WithinBounds(OccupancyAt(LegAtPosition(k)))
    /\ (pc = "raised" /\ OperationsBuilt) =>
          /\ error \in {"capacity_exceeded", "insufficient_storage"}
          /\ \A k \in 1..(loop_idx - 1) : WithinBounds(OccupancyAt(LegAtPosition(k)))
          /\ current_storage = OccupancyAt(LegAtPosition(loop_idx))
          /\ error = "capacity_exceeded" <=> AboveCapacity(current_storage)
          /\ error = "insufficient_storage" <=> BelowZero(current_storage)
    /\ pc = "done" =>
          \A p \in 1..NumLegs : WithinBounds(OccupancyAt(p))

\* Injecting 6,000,000 against a capacity of 5,000,000.
C2_Witness ==
    /\ pc = "raised" /\ error = "capacity_exceeded"
    /\ max_storage_capacity = FromInt(5000000)
    /\ operations[loop_idx].volume = FromInt(6000000)
    /\ loop_idx = 1

\* C3: a failing call reports the error of the earliest violated check in
\* the order lengths, lengths, non-empty, dates, volumes, totals, occupancy,
\* schedule order; it stops there and returns nothing; a call returns a
\* result only when no check is violated.
C3_EarliestCheckReported ==
    /\ pc = "raised" =>
          /\ error \in ExpectedErrors
          /\ result = NoResult
          /\ ~ENABLED Next
    /\ pc = "done" => ExpectedErrors = {} /\ result.status = "returned"

\* A call violating the length, date and volume checks together.
C3_Witness ==
    /\ pc = "raised" /\ error = "mismatched_length"
    /\ ViolatesWithdrawalLengths /\ ~ViolatesInjectionLengths
    /\ ViolatesDates /\ ViolatesPositive /\ ~ViolatesNonEmpty

\* C4: an accepted schedule has totals within 1e-6 of each other; a call
\* passing the earlier checks is rejected with the volume-mismatch error
\* exactly when the totals differ by more than 1e-6; totals of 100 and
\* 99.999999 pass the check.
C4_VolumeNeutral ==
    /\ pc = "done" => TotalsWithinTolerance
    /\ error = "volume_mismatch" => ~TotalsWithinTolerance
    /\ (pc = "raised" /\ ~TotalsWithinTolerance
        /\ error \notin {"mismatched_length", "empty_schedule", "invalid_date",
                         "non_positive_volume"})
          => error = "volume_mismatch"
    /\ (total_injection_volume = FromInt(100)
        /\ total_withdrawal_volume = Fine(100, -TolEps))
          => error # "volume_mismatch"

\* Injections summing to 100 against withdrawals summing to 99.999999,
\* accepted and valued.
C4_Witness ==
    /\ pc = "done"
    /\ total_injection_volume = FromInt(100)
    /\ total_withdrawal_volume = Fine(100, -TolEps)

\* The raw prediction for the date string of a leg.
RawPrediction(date_str) ==
    Predict(price_model, Features(ToDatetime(date_str), price_model.reference_date,
                                  price_model.last_time_index))

DetailPriceClamped(detail) ==
    /\ detail.price >= 0
    /\ detail.price = (IF RawPrediction(detail.date) < 0 THEN 0
                       ELSE RawPrediction(detail.date))

\* C5: every unit price recorded for a leg is the raw prediction when that
\* is not negative and 0 when it is, so no recorded price is negative.
C5_PriceNeverNegative ==
    /\ \A i \in 1..Len(injection_details) : DetailPriceClamped(injection_details[i])
    /\ \A i \in 1..Len(withdrawal_details) : DetailPriceClamped(withdrawal_details[i])

\* A leg priced at 0 because the raw prediction is negative.
C5_Witness ==
    \E i \in 1..Len(withdrawal_details) :
        /\ withdrawal_details[i].price = 0
        /\ RawPrediction(withdrawal_details[i].date) < 0

RECURSIVE SumOver(_, _, _)
\* Sum of term[k] over k in 1..n.
SumOver(term, n, acc) == IF n = 0 THEN acc ELSE SumOver(term, n - 1, NAdd(acc, term[n]))

ExpectedPurchaseCost ==
    SumOver([k \in 1..Len(injection_dates) |->
                NScale(injection_volumes[k], EstimatePrice(injection_dates[k], price_model))],
            Len(injection_dates), Zero)
ExpectedSaleRevenue ==
    SumOver([k \in 1..Len(withdrawal_dates) |->
                NScale(withdrawal_volumes[k], EstimatePrice(withdrawal_dates[k], price_model))],
            Len(withdrawal_dates), Zero)
\* (volume / 1e6) * unit cost: unit cost * volume micro-units
ExpectedHandling(volumes, unit_cost) ==
    SumOver([k \in 1..Len(volumes) |->
                Norm([u |-> 0, e |-> 0, mu |-> unit_cost * volumes[k].u,
                      me |-> unit_cost * volumes[k].e])],
            Len(volumes), Zero)

\* C6: the returned contract value is sale revenue minus purchase cost,
\* injection cost, withdrawal cost, transport cost and storage cost, where
\* the purchase cost and sale revenue are the sums of volume * price, the
\* injection and withdrawal costs the sums of (volume / 1e6) * unit cost,
\* and the transport cost the cost per trip times the number of legs; one
\* injection and one withdrawal of 1,000,000 at the default costs give
\* injection cost 10, withdrawal cost 10 and transport cost 50000.
C6_ContractValueFormula ==
    pc = "done" =>
        /\ result.total_purchase_cost = ExpectedPurchaseCost
        /\ result.total_sale_revenue = ExpectedSaleRevenue
        /\ result.total_injection_cost =
               ExpectedHandling(injection_volumes, storage_costs.injection_cost)
        /\ result.total_withdrawal_cost =
               ExpectedHandling(withdrawal_volumes, storage_costs.withdrawal_cost)
        /\ result.total_transport_cost = FromInt(storage_costs.transport_cost_per_trip * NumLegs)
        /\ NAdd(NAdd(NAdd(NAdd(NAdd(result.contract_value, result.total_purchase_cost),
                               result.total_injection_cost),
                          result.total_withdrawal_cost),
                     result.total_transport_cost),
                result.total_storage_cost)
               = result.total_sale_revenue
        /\ (/\ injection_volumes = <<FromInt(1000000)>>
            /\ withdrawal_volumes = <<FromInt(1000000)>>
            /\ storage_costs = DefaultCosts)
              => /\ result.total_injection_cost = FromInt(10)
                 /\ result.total_withdrawal_cost = FromInt(10)
                 /\ result.total_transport_cost = FromInt(50000)

\* One injection and one withdrawal of 1,000,000 at the default costs, sold
\* at a higher price than bought.
C6_Witness ==
    /\ pc = "done"
    /\ injection_volumes = <<FromInt(1000000)>>
    /\ withdrawal_volumes = <<FromInt(1000000)>>
    /\ storage_costs = DefaultCosts
    /\ result.total_injection_cost = FromInt(10)
    /\ Sign(NSub(result.total_sale_revenue, result.total_purchase_cost)) > 0

\* The earliest of the parsed dates, without the scan of min().
Earliest(ds) ==
    CHOOSE d \in {ds[i] : i \in 1..Len(ds)} :
        \A i \in 1..Len(ds) : ~DateLess(ds[i], d)
Latest(ds) ==
    CHOOSE d \in {ds[i] : i \in 1..Len(ds)} :
        \A i \in 1..Len(ds) : ~DateLess(d, ds[i])

CalendarMonths ==
    (Latest(withdrawal_dates_parsed).year - Earliest(injection_dates_parsed).year) * 12
    + Latest(withdrawal_dates_parsed).month - Earliest(injection_dates_parsed).month

\* C7: the returned duration is the calendar-month difference between the
\* earliest injection and the latest withdrawal, or 1 when that is less
\* than 1, so it is at least 1; the storage cost is the duration times the
\* monthly fee; 2024-06-01 to 2024-09-01 at the default fee gives 3 months
\* and 300000.
C7_DurationAndStorageCost ==
    pc = "done" =>
        /\ result.duration_months = (IF CalendarMonths < 1 THEN 1 ELSE CalendarMonths)
        /\ result.duration_months >= 1
        /\ result.total_storage_cost =
               FromInt(result.duration_months * storage_costs.monthly_storage_fee)
        /\ (/\ injection_dates = <<D0601>>
            /\ withdrawal_dates = <<D0901>>
            /\ storage_costs = DefaultCosts)
              => /\ result.duration_months = 3
                 /\ result.total_storage_cost = FromInt(300000)

\* The example schedule, returned with 3 months and 300000.
C7_Witness ==
    /\ pc = "done"
    /\ injection_dates = <<D0601>> /\ withdrawal_dates = <<D0901>>
    /\ storage_costs = DefaultCosts
    /\ result.duration_months = 3
    /\ result.total_storage_cost = FromInt(300000)

\* A schedule within one calendar month, returned with the minimum of 1.
C7_FloorReached ==
    /\ pc = "done" /\ CalendarMonths = 0 /\ result.duration_months = 1

\* The call's outcome: how it ended and, when it returned, the value.
Outcome ==
    IF pc = "raised" THEN Raised(error) ELSE Returned(result.contract_value)

\* seq with the entries at positions a and b exchanged
Swapped(seq, a, b) ==
    [k \in 1..Len(seq) |-> IF k = a THEN seq[b] ELSE IF k = b THEN seq[a] ELSE seq[k]]

\* The chronology: the sorted operations without their input positions.
Chronology(ops) ==
    [k \in 1..Len(ops) |-> [date |-> ops[k].date, type |-> ops[k].type,
                            volume |-> ops[k].volume]]

ChronologyOf(inj_dates, wd_dates) ==
    Chronology(SortByDate(MergedOperations(ParsedList(inj_dates), injection_volumes,
                                           ParsedList(wd_dates), withdrawal_volumes)))

WellFormed ==
    /\ ~ViolatesInjectionLengths /\ ~ViolatesWithdrawalLengths /\ ~ViolatesDates

\* The swap of legs a and b of one list keeps the chronology.
KeepsChronology(inj_dates, wd_dates) ==
    WellFormed => ChronologyOf(inj_dates, wd_dates)
                    = ChronologyOf(injection_dates, withdrawal_dates)

SameVolumePairs(dates, volumes) ==
    {ab \in (1..Len(dates)) \X (1..Len(dates)) :
        /\ ab[1] < ab[2] /\ ab[2] <= Len(volumes)
        /\ volumes[ab[1]] = volumes[ab[2]]}

MergedPosition(op) ==
    IF op.type = "injection" THEN op.index + 1 ELSE NumInjections + op.index + 1

\* C9: the replayed list is the merged list (injections in input order, then
\* withdrawals in input order) sorted by date with ties kept in that order:
\* on one date every injection is replayed before every withdrawal, so each
\* withdrawal is replayed after every injection dated on or before it.
C9_StableChronology ==
    (pc = "replay" /\ loop_idx = 1) =>
        /\ Len(operations) = NumLegs
        /\ \A k \in 1..NumLegs :
              LET p == MergedPosition(operations[k])
              IN  /\ Rank(p) = k
                  /\ operations[k].date = LegDate(p)
                  /\ operations[k].volume = LegVolume(p)
                  /\ operations[k].type =
                         (IF LegIsInjection(p) THEN "injection" ELSE "withdrawal")
        /\ \A j \in 1..NumLegs, k \in 1..NumLegs :
              (/\ operations[j].type = "injection"
               /\ operations[k].type = "withdrawal"
               /\ ~DateLess(operations[k].date, operations[j].date))
                 => j < k

AllOnOneDate == \A j \in 1..NumLegs, k \in 1..NumLegs : LegDate(j) = LegDate(k)

\* Two injections and a withdrawal on one date: each injection fits the
\* capacity, both together exceed it, and the call fails on the second.
C9_Witness ==
    /\ pc = "raised" /\ error = "capacity_exceeded"
    /\ AllOnOneDate
    /\ Len(injection_dates) = 2
    /\ loop_idx = 2
    /\ ~AboveCapacity(injection_volumes[1]) /\ ~AboveCapacity(injection_volumes[2])

\* A withdrawal covered by an injection of its own date.
C9_SameDateCovered ==
    /\ pc = "done" /\ AllOnOneDate

AllWithdrawalsPrecede ==
    \A i \in 1..Len(injection_dates), j \in 1..Len(withdrawal_dates) :
        DateLess(ToDatetime(withdrawal_dates[j]), ToDatetime(injection_dates[i]))

C10_OrderCheckRan == pc = "return"

====
